---- MODULE Spec2Model ----
(***************************************************************************)
(* Certificate verification workflow of BloodLink: the hash engine, the    *)
(* DonorVerification contract, the verify-certificate edge function (the   *)
(* approval orchestrator, "decide") and the public verifier.               *)
(***************************************************************************)
EXTENDS Integers, Sequences, FiniteSets, TLC

(***************************************************************************)
(* Bounds of the model.                                                    *)
(***************************************************************************)
MaxFileLen == 1
DigestLen == 2
MaxTime == 2
MaxEvents == 3
MaxCerts == 2
MaxTx == 2

(***************************************************************************)
(* Hash engine.  Files are byte sequences; the digest primitive is         *)
(* abstracted to a fixed-length, collision-free, never-zero byte array,    *)
(* and the rendering to a "0x"-prefixed hex string is modelled character   *)
(* by character, as each of the two call sites writes it.                  *)
(***************************************************************************)
FileByte == {0, 1}

FileBytes == UNION {[1..n -> FileByte] : n \in 1..MaxFileLen}

RECURSIVE ByteCode(_)
ByteCode(b) == IF Len(b) = 0 THEN 0
               ELSE (b[1] + 1) + (Cardinality(FileByte) + 1) * ByteCode(Tail(b))

\* crypto.subtle.digest("SHA-256", bytes): DigestLen bytes, injective here
SHA256(b) == [i \in 1..DigestLen |->
                IF i = 1 THEN Len(b) + 1 ELSE (37 * (i - 1) * ByteCode(b)) % 256]

HexChars == <<"0","1","2","3","4","5","6","7","8","9","a","b","c","d","e","f">>

\* Number.prototype.toString(16) of a byte
toString16(n) == IF n < 16 THEN <<HexChars[n + 1]>>
                 ELSE <<HexChars[(n \div 16) + 1], HexChars[(n % 16) + 1]>>

\* String.prototype.padStart(2, '0')
padStart2(s) == IF Len(s) < 2 THEN <<"0">> \o s ELSE s

RECURSIVE join(_)
join(parts) == IF Len(parts) = 0 THEN <<>> ELSE Head(parts) \o join(Tail(parts))

\* server side: hashArray.map(b => b.toString(16).padStart(2,'0')).join('')
ServerHex(bytes) == join([i \in 1..Len(bytes) |-> padStart2(toString16(bytes[i]))])

computeFileHash(fileData) == <<"0", "x">> \o ServerHex(SHA256(fileData))

\* variant: the rendering without padStart, one digit for a byte below 16
UnpaddedHex(bytes) == join([i \in 1..Len(bytes) |-> toString16(bytes[i])])

\* client side: the same rendering, written a second time in certificateHash.js
ClientHex(bytes) == join([i \in 1..Len(bytes) |-> padStart2(toString16(bytes[i]))])

\* computeCertificateHash: throws when Web Crypto is not available
computeCertificateHash(fileInput, subtle) ==
    IF ~subtle THEN [ok |-> FALSE, hash |-> <<>>]
    ELSE [ok |-> TRUE, hash |-> <<"0", "x">> \o ClientHex(SHA256(fileInput))]

HexVal(c) == CHOOSE n \in 0..15 : HexChars[n + 1] = c

IsHexChar(c) == \E n \in 1..16 : HexChars[n] = c

\* ethers' bytes32 argument coding: "0x" and exactly 2 * DigestLen hex digits
IsBytes32(s) == /\ Len(s) = 2 + 2 * DigestLen
                /\ s[1] = "0" /\ s[2] = "x"
                /\ \A i \in 3..Len(s) : IsHexChar(s[i])

ToBytes32(s) == [i \in 1..DigestLen |-> 16 * HexVal(s[2 * i + 1]) + HexVal(s[2 * i + 2])]

ZeroHash == [i \in 1..DigestLen |-> 0]

(***************************************************************************)
(* Addresses.  An account is a number; 0 is address(0).  An address string *)
(* as typed into a form or sent in a request body has a form: "hex" is     *)
(* 0x + 40 hex digits in one case or with a valid checksum, "badsum" is    *)
(* 0x + 40 mixed-case hex digits whose checksum is wrong, "nopfx" is 40    *)
(* hex digits without the 0x marker, "malformed" is anything else and      *)
(* "empty" is the empty string.                                            *)
(***************************************************************************)
ZeroAddress == 0
Deployer == 1
Wallet == 2

Account == {ZeroAddress, Deployer, Wallet}
Sender == {Deployer, Wallet}
DonorAccount == {Deployer, Wallet}

AddrString == [acct : DonorAccount, form : {"hex"}]
                \cup [acct : {Deployer}, form : {"badsum", "nopfx"}]
                \cup [acct : {ZeroAddress}, form : {"malformed", "empty"}]

\* /^0x[a-fA-F0-9]{40}$/.test(walletAddress)
AddressRegex(a) == a.form \in {"hex", "badsum"}

\* ethers.isAddress / getAddress: the 0x marker is optional, a mixed-case
\* string must carry a valid checksum
isAddress(a) == a.form \in {"hex", "nopfx"}

(***************************************************************************)
(* DonorVerification contract.                                             *)
(***************************************************************************)
NoRecord == [donor |-> ZeroAddress, certHash |-> ZeroHash, eligible |-> FALSE,
             timestamp |-> 0, exists |-> FALSE]

VARIABLES records, admin, events, now, ret

NoRet == [op |-> "none"]

\* variant: a modifier that lets every caller through
anyCaller(sender) == TRUE

onlyAdmin(sender) == sender = admin

\* variant: a record, once written, is kept; the call still succeeds and logs
storeIfAbsent(sender, _donor, _certHash, _eligible, ts) ==
    IF ~onlyAdmin(sender)
    THEN [reverted |-> TRUE, reason |-> "Only admin can call this function",
          records |-> records, events |-> events]
    ELSE IF _certHash = ZeroHash
    THEN [reverted |-> TRUE, reason |-> "Certificate hash cannot be empty",
          records |-> records, events |-> events]
    ELSE LET isUpdate == records[_donor].exists
             oldHash == records[_donor].certHash
             rec == [donor |-> _donor, certHash |-> _certHash,
                     eligible |-> _eligible, timestamp |-> ts, exists |-> TRUE]
         IN [reverted |-> FALSE, reason |-> "",
             records |-> IF isUpdate THEN records ELSE [records EXCEPT ![_donor] = rec],
             events |-> Append(events,
                 IF isUpdate
                 THEN [name |-> "RecordUpdated", donor |-> _donor, oldHash |-> oldHash,
                       newHash |-> _certHash, eligible |-> _eligible, timestamp |-> ts]
                 ELSE [name |-> "RecordAdded", donor |-> _donor, certHash |-> _certHash,
                       eligible |-> _eligible, timestamp |-> ts, verifier |-> sender])]

\* variant: the record is stored under the caller's address
storeUnderSender(sender, _donor, _certHash, _eligible, ts) ==
    IF ~onlyAdmin(sender)
    THEN [reverted |-> TRUE, reason |-> "Only admin can call this function",
          records |-> records, events |-> events]
    ELSE IF _certHash = ZeroHash
    THEN [reverted |-> TRUE, reason |-> "Certificate hash cannot be empty",
          records |-> records, events |-> events]
    ELSE LET isUpdate == records[_donor].exists
             oldHash == records[_donor].certHash
             rec == [donor |-> _donor, certHash |-> _certHash,
                     eligible |-> _eligible, timestamp |-> ts, exists |-> TRUE]
         IN [reverted |-> FALSE, reason |-> "",
             records |-> [records EXCEPT ![sender] = rec],
             events |-> Append(events,
                 IF isUpdate
                 THEN [name |-> "RecordUpdated", donor |-> _donor, oldHash |-> oldHash,
                       newHash |-> _certHash, eligible |-> _eligible, timestamp |-> ts]
                 ELSE [name |-> "RecordAdded", donor |-> _donor, certHash |-> _certHash,
                       eligible |-> _eligible, timestamp |-> ts, verifier |-> sender])]

\* variant: no test of the hash
storeAnyHash(sender, _donor, _certHash, _eligible, ts) ==
    IF ~onlyAdmin(sender)
    THEN [reverted |-> TRUE, reason |-> "Only admin can call this function",
          records |-> records, events |-> events]
    ELSE LET isUpdate == records[_donor].exists
             oldHash == records[_donor].certHash
             rec == [donor |-> _donor, certHash |-> _certHash,
                     eligible |-> _eligible, timestamp |-> ts, exists |-> TRUE]
         IN [reverted |-> FALSE, reason |-> "",
             records |-> [records EXCEPT ![_donor] = rec],
             events |-> Append(events,
                 IF isUpdate
                 THEN [name |-> "RecordUpdated", donor |-> _donor, oldHash |-> oldHash,
                       newHash |-> _certHash, eligible |-> _eligible, timestamp |-> ts]
                 ELSE [name |-> "RecordAdded", donor |-> _donor, certHash |-> _certHash,
                       eligible |-> _eligible, timestamp |-> ts, verifier |-> sender])]

\* variant: a write that withdraws eligibility deletes the record
storeOrDelete(sender, _donor, _certHash, _eligible, ts) ==
    IF ~onlyAdmin(sender)
    THEN [reverted |-> TRUE, reason |-> "Only admin can call this function",
          records |-> records, events |-> events]
    ELSE IF _certHash = ZeroHash
    THEN [reverted |-> TRUE, reason |-> "Certificate hash cannot be empty",
          records |-> records, events |-> events]
    ELSE LET isUpdate == records[_donor].exists
             oldHash == records[_donor].certHash
             rec == [donor |-> _donor, certHash |-> _certHash,
                     eligible |-> _eligible, timestamp |-> ts, exists |-> TRUE]
         IN [reverted |-> FALSE, reason |-> "",
             records |-> [records EXCEPT ![_donor] =
                             IF isUpdate /\ ~_eligible THEN NoRecord ELSE rec],
             events |-> Append(events,
                 IF isUpdate
                 THEN [name |-> "RecordUpdated", donor |-> _donor, oldHash |-> oldHash,
                       newHash |-> _certHash, eligible |-> _eligible, timestamp |-> ts]
                 ELSE [name |-> "RecordAdded", donor |-> _donor, certHash |-> _certHash,
                       eligible |-> _eligible, timestamp |-> ts, verifier |-> sender])]

\* the outcome of a storeVerification transaction mined at block time ts
storeVerification(sender, _donor, _certHash, _eligible, ts) ==
    IF ~onlyAdmin(sender)
    THEN [reverted |-> TRUE, reason |-> "Only admin can call this function",
          records |-> records, events |-> events]
    ELSE IF _certHash = ZeroHash
    THEN [reverted |-> TRUE, reason |-> "Certificate hash cannot be empty",
          records |-> records, events |-> events]
    ELSE LET isUpdate == records[_donor].exists
             oldHash == records[_donor].certHash
             rec == [donor |-> _donor, certHash |-> _certHash,
                     eligible |-> _eligible, timestamp |-> ts, exists |-> TRUE]
         IN [reverted |-> FALSE, reason |-> "",
             records |-> [records EXCEPT ![_donor] = rec],
             events |-> Append(events,
                 IF isUpdate
                 THEN [name |-> "RecordUpdated", donor |-> _donor, oldHash |-> oldHash,
                       newHash |-> _certHash, eligible |-> _eligible, timestamp |-> ts]
                 ELSE [name |-> "RecordAdded", donor |-> _donor, certHash |-> _certHash,
                       eligible |-> _eligible, timestamp |-> ts, verifier |-> sender])]

\* variant: any hash matches an existing record
verifyAnyHash(_donor, _certHash) ==
    LET r == records[_donor]
    IN IF ~r.exists
       THEN [eligible |-> FALSE, timestamp |-> 0, matches |-> FALSE]
       ELSE [eligible |-> r.eligible, timestamp |-> r.timestamp, matches |-> TRUE]

\* variant: a hash matches only the record of an eligible donor
verifyEligibleHash(_donor, _certHash) ==
    LET r == records[_donor]
    IN IF ~r.exists
       THEN [eligible |-> FALSE, timestamp |-> 0, matches |-> FALSE]
       ELSE [eligible |-> r.eligible, timestamp |-> r.timestamp,
             matches |-> (r.eligible /\ r.certHash = _certHash)]

verify(_donor, _certHash) ==
    LET r == records[_donor]
    IN IF ~r.exists
       THEN [eligible |-> FALSE, timestamp |-> 0, matches |-> FALSE]
       ELSE [eligible |-> r.eligible, timestamp |-> r.timestamp,
             matches |-> (r.certHash = _certHash)]

getRecord(_donor) ==
    LET r == records[_donor]
    IN [certHash |-> r.certHash, eligible |-> r.eligible,
        timestamp |-> r.timestamp, exists |-> r.exists]

hasRecord(_donor) == records[_donor].exists

\* variant: no test of the new admin's address
changeAdminUnchecked(sender, _newAdmin) ==
    IF ~onlyAdmin(sender)
    THEN [reverted |-> TRUE, reason |-> "Only admin can call this function",
          admin |-> admin, events |-> events]
    ELSE [reverted |-> FALSE, reason |-> "", admin |-> _newAdmin,
          events |-> Append(events, [name |-> "AdminChanged", oldAdmin |-> admin,
                                     newAdmin |-> _newAdmin])]

changeAdmin(sender, _newAdmin) ==
    IF ~onlyAdmin(sender)
    THEN [reverted |-> TRUE, reason |-> "Only admin can call this function",
          admin |-> admin, events |-> events]
    ELSE IF _newAdmin = ZeroAddress
    THEN [reverted |-> TRUE, reason |-> "New admin cannot be zero address",
          admin |-> admin, events |-> events]
    ELSE [reverted |-> FALSE, reason |-> "", admin |-> _newAdmin,
          events |-> Append(events, [name |-> "AdminChanged", oldAdmin |-> admin,
                                     newAdmin |-> _newAdmin])]

(***************************************************************************)
(* Record store (donor_certificates), file store (certificates bucket),    *)
(* the transactions the edge function has sent, and its running requests.  *)
(***************************************************************************)
Null == <<>>
Some(v) == <<v>>

CertId == 1..MaxCerts
TxId == 1..MaxTx
Proc == {1, 2}
DonorUser == {"donor1"}
ContractAddress == "DONOR_CONTRACT_ADDRESS"

NoRow == [present |-> FALSE]
NoFile == Null
NoTx == [status |-> "none"]
NoLoc == [certificateId |-> 0]

VARIABLES certs, files, txs, writer, pc, loc

\* one CertificateApproval instance: the certificate under review (its id), the
\* walletAddress field of the review modal, the id being processed, and the
\* ids of the pending list
VARIABLES reviewModal, modalWalletAddress, processingId, pendingCerts, loading

ui == <<reviewModal, modalWalletAddress, processingId, pendingCerts, loading>>

NoAddress == [acct |-> ZeroAddress, form |-> "empty"]

vars == <<records, admin, events, now, ret, certs, files, txs, writer, pc, loc, ui>>

Init ==
    /\ records = [a \in Account |-> NoRecord]
    /\ admin = Deployer
    /\ events = <<>>
    /\ now = 1
    /\ ret = NoRet
    /\ certs = [c \in CertId |-> NoRow]
    /\ files = [f \in CertId |-> NoFile]
    /\ txs = [t \in TxId |-> NoTx]
    /\ writer = [a \in Account |-> 0]
    /\ pc = [p \in Proc |-> "idle"]
    /\ loc = [p \in Proc |-> NoLoc]
    /\ reviewModal = Null
    /\ modalWalletAddress = NoAddress
    /\ processingId = Null
    /\ pendingCerts = {}
    /\ loading = TRUE

\* the caller takes the result of the call that has just returned
Return ==
    /\ ret # NoRet
    /\ ret' = NoRet
    /\ UNCHANGED <<records, admin, events, now, certs, files, txs, writer, pc, loc, ui>>

\* block time and wall-clock time advance
Tick ==
    /\ ret = NoRet
    /\ now < MaxTime
    /\ now' = now + 1
    /\ UNCHANGED <<records, admin, events, ret, certs, files, txs, writer, pc, loc, ui>>

(***************************************************************************)
(* Transactions sent to the contract from outside the edge function.       *)
(***************************************************************************)
HashArg == {ZeroHash} \cup {SHA256(b) : b \in FileBytes}

\* the arguments of the calls: every hash and eligibility for the donors'
\* addresses, and one record for the zero address, which the contract accepts
StoreInput ==
    [donor : DonorAccount, certHash : HashArg, eligible : BOOLEAN]
    \cup [donor : {ZeroAddress}, certHash : {CHOOSE h \in HashArg : h # ZeroHash},
          eligible : {TRUE}]

CallStoreVerification ==
    /\ ret = NoRet
    /\ \E sender \in Sender, i \in StoreInput :
         LET d == i.donor
             h == i.certHash
             e == i.eligible
             r == storeVerification(sender, d, h, e, now)
         IN /\ Len(r.events) <= MaxEvents
            /\ records' = r.records
            /\ events' = r.events
            /\ writer' = IF r.reverted THEN writer ELSE [writer EXCEPT ![d] = 0]
            /\ ret' = [op |-> "storeVerification", sender |-> sender, donor |-> d,
                       certHash |-> h, eligible |-> e, timestamp |-> now,
                       reverted |-> r.reverted, reason |-> r.reason, tx |-> 0]
    /\ UNCHANGED <<admin, now, certs, files, txs, pc, loc, ui>>

\* a changeAdmin transaction from sender
ChangeAdminTx(sender, n) ==
    LET r == changeAdmin(sender, n)
    IN /\ Len(r.events) <= MaxEvents
       /\ admin' = r.admin
       /\ events' = r.events
       /\ ret' = [op |-> "changeAdmin", sender |-> sender, newAdmin |-> n,
                  reverted |-> r.reverted, reason |-> r.reason]
       /\ UNCHANGED <<records, now, certs, files, txs, writer, pc, loc, ui>>

CallChangeAdmin ==
    /\ ret = NoRet
    /\ \E sender \in Sender, n \in Account : ChangeAdminTx(sender, n)

\* the admin hands the role over: from the deployer to the backend wallet, or back
HandOver ==
    /\ ret = NoRet
    /\ \E n \in Sender \ {admin} : ChangeAdminTx(admin, n)

(***************************************************************************)
(* Verifier (blockchainVerificationService and CertificateVerification).   *)
(***************************************************************************)
\* contract.verify(donorAddress, certHash) through the read-only provider
verifyHashOnBlockchain(donorAddress, certHash, rpcOk) ==
    IF ~isAddress(donorAddress) \/ ~IsBytes32(certHash) \/ ~rpcOk
    THEN [thrown |-> TRUE, error |-> "Blockchain verification failed"]
    ELSE LET v == verify(donorAddress.acct, ToBytes32(certHash))
         IN [thrown |-> FALSE, eligible |-> v.eligible, timestamp |-> v.timestamp,
             matches |-> v.matches]

\* variant: the record as read, without the test of its exists flag
getRecordUnchecked(donorAddress, rpcOk) ==
    IF ~isAddress(donorAddress) \/ ~rpcOk
    THEN [thrown |-> TRUE, error |-> "Failed to fetch blockchain record"]
    ELSE LET r == getRecord(donorAddress.acct)
         IN [thrown |-> FALSE,
             record |-> Some([certHash |-> r.certHash, eligible |-> r.eligible,
                              timestamp |-> r.timestamp, exists |-> r.exists])]

\* variant: a missing record is thrown like a failed read
getRecordOrThrow(donorAddress, rpcOk) ==
    IF ~isAddress(donorAddress) \/ ~rpcOk \/ ~getRecord(donorAddress.acct).exists
    THEN [thrown |-> TRUE, error |-> "Failed to fetch blockchain record"]
    ELSE LET r == getRecord(donorAddress.acct)
         IN [thrown |-> FALSE,
             record |-> Some([certHash |-> r.certHash, eligible |-> r.eligible,
                              timestamp |-> r.timestamp, exists |-> r.exists])]

\* variant: a row uploaded for the address counts as a record
getRecordOrRow(donorAddress, rpcOk) ==
    IF ~isAddress(donorAddress) \/ ~rpcOk
    THEN [thrown |-> TRUE, error |-> "Failed to fetch blockchain record"]
    ELSE LET r == getRecord(donorAddress.acct)
         IN IF ~r.exists /\ ~\E c \in CertId : /\ certs[c].present
                                                /\ certs[c].donor_wallet_address = donorAddress
            THEN [thrown |-> FALSE, record |-> Null]
            ELSE [thrown |-> FALSE,
                  record |-> Some([certHash |-> r.certHash, eligible |-> r.eligible,
                                   timestamp |-> r.timestamp, exists |-> TRUE])]

\* contract.getRecord(donorAddress); null when the record does not exist
getDonorBlockchainRecord(donorAddress, rpcOk) ==
    IF ~isAddress(donorAddress) \/ ~rpcOk
    THEN [thrown |-> TRUE, error |-> "Failed to fetch blockchain record"]
    ELSE LET r == getRecord(donorAddress.acct)
         IN IF ~r.exists
            THEN [thrown |-> FALSE, record |-> Null]
            ELSE [thrown |-> FALSE,
                  record |-> Some([certHash |-> r.certHash, eligible |-> r.eligible,
                                   timestamp |-> r.timestamp, exists |-> r.exists])]

\* the requests a read of the ledger sends: ethers rejects an address it cannot
\* encode before any request leaves the client
ReadCalls(donorAddress, method) == IF isAddress(donorAddress) THEN <<method>> ELSE <<>>

\* variant: the ledger is asked before the address is looked at
verifyFileUnvalidated(file, walletAddress, subtle, rpcOk) ==
    IF file = Null \/ walletAddress.form = "empty"
    THEN [error |-> Some("Please select a file and enter wallet address"),
          verificationResult |-> Null, calls |-> <<>>]
    ELSE LET h == computeCertificateHash(file[1], subtle)
         IN IF ~h.ok
            THEN [error |-> Some("Failed to compute hash"), verificationResult |-> Null,
                  calls |-> <<>>]
            ELSE IF ~AddressRegex(walletAddress)
            THEN [error |-> Some("Invalid Ethereum wallet address format"),
                  verificationResult |-> Null, calls |-> <<"contract.verify">>]
            ELSE LET r == verifyHashOnBlockchain(walletAddress, h.hash, rpcOk)
                     sent == IF IsBytes32(h.hash) THEN ReadCalls(walletAddress, "contract.verify")
                             ELSE <<>>
                 IN IF r.thrown
                    THEN [error |-> Some(r.error), verificationResult |-> Null,
                          calls |-> sent]
                    ELSE [error |-> Null,
                          verificationResult |->
                              Some([mode |-> "file", certHash |-> h.hash,
                                    walletAddress |-> walletAddress,
                                    eligible |-> r.eligible, timestamp |-> r.timestamp,
                                    matches |-> r.matches]),
                          calls |-> sent]

\* handleVerifyFile: file is Null when no file is selected; calls are the
\* requests sent to the ledger
handleVerifyFile(file, walletAddress, subtle, rpcOk) ==
    IF file = Null \/ walletAddress.form = "empty"
    THEN [error |-> Some("Please select a file and enter wallet address"),
          verificationResult |-> Null, calls |-> <<>>]
    ELSE IF ~AddressRegex(walletAddress)
    THEN [error |-> Some("Invalid Ethereum wallet address format"),
          verificationResult |-> Null, calls |-> <<>>]
    ELSE LET h == computeCertificateHash(file[1], subtle)
         IN IF ~h.ok
            THEN [error |-> Some("Failed to compute hash"), verificationResult |-> Null,
                  calls |-> <<>>]
            ELSE LET r == verifyHashOnBlockchain(walletAddress, h.hash, rpcOk)
                     sent == IF IsBytes32(h.hash) THEN ReadCalls(walletAddress, "contract.verify")
                             ELSE <<>>
                 IN IF r.thrown
                    THEN [error |-> Some(r.error), verificationResult |-> Null,
                          calls |-> sent]
                    ELSE [error |-> Null,
                          verificationResult |->
                              Some([mode |-> "file", certHash |-> h.hash,
                                    walletAddress |-> walletAddress,
                                    eligible |-> r.eligible, timestamp |-> r.timestamp,
                                    matches |-> r.matches]),
                          calls |-> sent]

handleLookupAddress(lookupAddress, rpcOk) ==
    IF lookupAddress.form = "empty"
    THEN [error |-> Some("Please enter a wallet address"), verificationResult |-> Null,
          calls |-> <<>>]
    ELSE IF ~AddressRegex(lookupAddress)
    THEN [error |-> Some("Invalid Ethereum wallet address format"),
          verificationResult |-> Null, calls |-> <<>>]
    ELSE LET r == getDonorBlockchainRecord(lookupAddress, rpcOk)
             sent == ReadCalls(lookupAddress, "contract.getRecord")
         IN IF r.thrown
            THEN [error |-> Some(r.error), verificationResult |-> Null, calls |-> sent]
            ELSE IF r.record = Null
            THEN [error |-> Some("No verification record found for this address"),
                  verificationResult |-> Null, calls |-> sent]
            ELSE [error |-> Null,
                  verificationResult |->
                      Some([mode |-> "address", walletAddress |-> lookupAddress,
                            certHash |-> r.record[1].certHash,
                            eligible |-> r.record[1].eligible,
                            timestamp |-> r.record[1].timestamp,
                            exists |-> r.record[1].exists]),
                  calls |-> sent]

FileInput == {Null} \cup {Some(b) : b \in FileBytes}

VerifyByFile ==
    /\ ret = NoRet
    /\ \E file \in FileInput, a \in AddrString, subtle \in BOOLEAN, rpcOk \in BOOLEAN :
         ret' = [op |-> "verifyByFile", out |-> handleVerifyFile(file, a, subtle, rpcOk)]
    /\ UNCHANGED <<records, admin, events, now, certs, files, txs, writer, pc, loc, ui>>

VerifyByAddress ==
    /\ ret = NoRet
    /\ \E a \in AddrString, rpcOk \in BOOLEAN :
         ret' = [op |-> "verifyByAddress", address |-> a,
                 record |-> getDonorBlockchainRecord(a, rpcOk),
                 out |-> handleLookupAddress(a, rpcOk)]
    /\ UNCHANGED <<records, admin, events, now, certs, files, txs, writer, pc, loc, ui>>

\* direct reads of the contract's view functions
CallView ==
    /\ ret = NoRet
    /\ \E d \in Account, h \in HashArg :
         ret' = [op |-> "view", donor |-> d, certHash |-> h,
                 verify |-> verify(d, h), getRecord |-> getRecord(d),
                 hasRecord |-> hasRecord(d)]
    /\ UNCHANGED <<records, admin, events, now, certs, files, txs, writer, pc, loc, ui>>

(***************************************************************************)
(* Donor upload (CertificateUpload.handleSubmit).                          *)
(***************************************************************************)
FreeFiles == {f \in CertId : files[f] = NoFile}
FreeCerts == {c \in CertId : ~certs[c].present}
Lowest(S) == CHOOSE x \in S : \A y \in S : x <= y

\* the row handleSubmit hands to createCertificateRecord
certificateData(userId, path, certHash, walletAddress) ==
    [present |-> TRUE, donor_id |-> userId, file_path |-> path,
     cert_hash |-> Some(certHash), donor_wallet_address |-> walletAddress,
     eligible |-> Null, tx_hash |-> Null, chain_address |-> Null,
     verified_at |-> Null, reviewed_by |-> Null, admin_notes |-> Null,
     created_at |-> now]

\* a selected File: its content, its size in MB, its MIME type and its name
MaxSizeMB == 10
AllowedTypes == {"application/pdf", "image/jpeg", "image/png", "image/jpg"}
GoodFile(b) == [bytes |-> b, size |-> 1, type |-> "application/pdf", name |-> "cert.pdf"]

\* validateCertificateFile(file, {maxSizeMB: 10, allowedTypes})
validateCertificateFile(file) ==
    IF file = Null
    THEN [valid |-> FALSE, error |-> "No file provided"]
    ELSE IF file[1].size > MaxSizeMB
    THEN [valid |-> FALSE, error |-> "File size exceeds 10MB limit"]
    ELSE IF file[1].type \notin AllowedTypes
    THEN [valid |-> FALSE, error |-> "File type not allowed"]
    ELSE IF file[1].name = ""
    THEN [valid |-> FALSE, error |-> "Invalid file name"]
    ELSE [valid |-> TRUE, error |-> ""]

\* handleFileChange: the file the form holds after a selection (its content),
\* and the message shown
handleFileChange(selectedFile) ==
    IF selectedFile = Null
    THEN [file |-> Null, error |-> Null]
    ELSE IF ~validateCertificateFile(selectedFile).valid
    THEN [file |-> Null, error |-> Some(validateCertificateFile(selectedFile).error)]
    ELSE [file |-> Some(selectedFile[1].bytes), error |-> Null]

\* variant: the row is created whether or not the file reached the store
submitInsertAlways(userId, file, walletAddress, subtle, uploadOk, insertOk) ==
    IF file = Null \/ walletAddress.form = "empty"
    THEN [error |-> Some("Please select a file and enter your wallet address"),
          files |-> files, certs |-> certs, calls |-> <<>>]
    ELSE IF ~AddressRegex(walletAddress)
    THEN [error |-> Some("Invalid Ethereum wallet address format"),
          files |-> files, certs |-> certs, calls |-> <<>>]
    ELSE LET h == computeCertificateHash(file[1], subtle)
             path == Lowest(FreeFiles)
             id == Lowest(FreeCerts)
         IN IF ~h.ok
            THEN [error |-> Some("Failed to compute hash"), files |-> files, certs |-> certs,
                  calls |-> <<>>]
            ELSE IF ~insertOk
            THEN [error |-> Some("Failed to create record"),
                  files |-> IF uploadOk THEN [files EXCEPT ![path] = file] ELSE files,
                  certs |-> certs,
                  calls |-> <<"storage.upload", "donor_certificates.insert">>]
            ELSE [error |-> IF uploadOk THEN Null ELSE Some("Upload failed"),
                  files |-> IF uploadOk THEN [files EXCEPT ![path] = file] ELSE files,
                  certs |-> [certs EXCEPT ![id] =
                                certificateData(userId, path, h.hash, walletAddress)],
                  calls |-> <<"storage.upload", "donor_certificates.insert">>]

\* handleSubmit: the files and rows after it, the message it shows, and the
\* collaborators it called (uploadCertificate, createCertificateRecord)
handleSubmit(userId, file, walletAddress, subtle, uploadOk, insertOk) ==
    IF file = Null \/ walletAddress.form = "empty"
    THEN [error |-> Some("Please select a file and enter your wallet address"),
          files |-> files, certs |-> certs, calls |-> <<>>]
    ELSE IF ~AddressRegex(walletAddress)
    THEN [error |-> Some("Invalid Ethereum wallet address format"),
          files |-> files, certs |-> certs, calls |-> <<>>]
    ELSE LET h == computeCertificateHash(file[1], subtle)
             path == Lowest(FreeFiles)
             id == Lowest(FreeCerts)
         IN IF ~h.ok
            THEN [error |-> Some("Failed to compute hash"), files |-> files, certs |-> certs,
                  calls |-> <<>>]
            ELSE IF ~uploadOk
            THEN [error |-> Some("Upload failed"), files |-> files, certs |-> certs,
                  calls |-> <<"storage.upload">>]
            ELSE IF ~insertOk
            THEN [error |-> Some("Failed to create record"),
                  files |-> [files EXCEPT ![path] = file], certs |-> certs,
                  calls |-> <<"storage.upload", "donor_certificates.insert">>]
            ELSE [error |-> Null,
                  files |-> [files EXCEPT ![path] = file],
                  certs |-> [certs EXCEPT ![id] =
                                certificateData(userId, path, h.hash, walletAddress)],
                  calls |-> <<"storage.upload", "donor_certificates.insert">>]

\* upload attempts: a complete one for every selection, and one for each way
\* the attempt can end early
GoodAddr == [acct |-> Wallet, form |-> "hex"]
AnyFile == Some(CHOOSE b \in FileBytes : TRUE)
AnySelection == Some(GoodFile(AnyFile[1]))

\* selections: nothing, every allowed file, and one file for each way the
\* validation can fail
SelectedInput ==
    {Null} \cup {Some(GoodFile(b)) : b \in FileBytes}
    \cup {Some([GoodFile(AnyFile[1]) EXCEPT !.size = 11]),
          Some([GoodFile(AnyFile[1]) EXCEPT !.type = "text/plain"]),
          Some([GoodFile(AnyFile[1]) EXCEPT !.name = ""])}

UploadInput ==
    [selected : SelectedInput, address : {GoodAddr}, subtle : {TRUE},
     uploadOk : {TRUE}, insertOk : {TRUE}]
    \cup [selected : {AnySelection},
          address : {a \in AddrString : a.form \in {"nopfx", "malformed", "empty"}},
          subtle : {TRUE}, uploadOk : {TRUE}, insertOk : {TRUE}]
    \cup [selected : {AnySelection}, address : {GoodAddr}, subtle : BOOLEAN,
          uploadOk : BOOLEAN, insertOk : BOOLEAN]

\* a selection followed by a submission of the form
Upload ==
    /\ ret = NoRet
    /\ FreeFiles # {} /\ FreeCerts # {}
    /\ \E u \in DonorUser, i \in UploadInput :
         LET sel == handleFileChange(i.selected)
             r == handleSubmit(u, sel.file, i.address, i.subtle, i.uploadOk, i.insertOk)
         IN /\ files' = r.files
            /\ certs' = r.certs
            /\ ret' = [op |-> "upload", error |-> r.error, fileError |-> sel.error,
                       calls |-> r.calls]
    /\ UNCHANGED <<records, admin, events, now, txs, writer, pc, loc, ui>>

(***************************************************************************)
(* The verify-certificate edge function ("decide").  A request runs as a   *)
(* process with two steps.  Begin is everything up to the submission of    *)
(* the transaction: what it reads from the record store and the file store *)
(* (the presence of the row, its file_path, the file) never changes once   *)
(* written, so its outcome is the same wherever between the request and    *)
(* the submission these reads fall.  Finish is tx.wait() and the update of *)
(* the row: the status of a mined transaction is final, so the wait can be *)
(* taken to return at the moment the update is issued.  Between the two    *)
(* the network mines the transaction (Mine), and everything else runs.     *)
(***************************************************************************)
AuthInput == {"noheader", "invalid", "hospital", "donor", "admin", "noprofile"}
NotesInput == {"", "note"}

\* variant: the message of a provider failure, used for the failed update too
GenericFailure == "network error"

DbFailed == "Blockchain verification successful but database update failed"

\* the 400 response of the catch block
\* (stage and call are not sent: they name where the handler stopped and what it held)
Failure(p, stage, msg, l) ==
    [op |-> "decide", proc |-> p, status |-> 400, success |-> FALSE, error |-> msg,
     stage |-> stage, call |-> l]

\* the 200 response of lines 168-185
Success(p, l) ==
    [op |-> "decide", proc |-> p, status |-> 200, success |-> TRUE, error |-> "",
     stage |-> "done", call |-> l]

\* variant: every authenticated user with a profile passes
AnyProfile(auth) == auth \in {"hospital", "admin", "donor"}

\* profile.role === 'hospital' (line 70) for the credential's user
IsHospital(auth) == auth = "hospital"

\* the collaborators the handler has called when it has checked the role (lines
\* 57, 64-68), selected the row (88-92) and downloaded the file (99-102)
AuthCalls == <<"auth.getUser", "user_profiles.select">>
RowCalls == AuthCalls \o <<"donor_certificates.select">>
FileCalls == RowCalls \o <<"storage.download">>

\* a record with one more field: the collaborators called
WithCalls(l, calls) == [calls |-> calls] @@ l

\* variant: the handler sends the hash the row already holds
PrepareStored(rows, store, auth, certificateId, donorWalletAddress, eligible, adminNotes, downloadOk, configOk) ==
    IF auth = "noheader"
    THEN [ok |-> FALSE, error |-> "Missing authorization header", calls |-> <<>>]
    ELSE IF auth = "invalid"
    THEN [ok |-> FALSE, error |-> "Unauthorized", calls |-> <<"auth.getUser">>]
    ELSE IF ~IsHospital(auth)
    THEN [ok |-> FALSE, error |-> "Only hospital staff can verify certificates",
          calls |-> AuthCalls]
    ELSE IF certificateId = 0 \/ donorWalletAddress.form = "empty"
    THEN [ok |-> FALSE, error |-> "Missing required fields: certificateId, donorWalletAddress",
          calls |-> AuthCalls]
    ELSE IF ~isAddress(donorWalletAddress)
    THEN [ok |-> FALSE, error |-> "Invalid Ethereum address format", calls |-> AuthCalls]
    ELSE IF ~rows[certificateId].present
    THEN [ok |-> FALSE, error |-> "Certificate not found", calls |-> RowCalls]
    ELSE IF ~downloadOk \/ store[rows[certificateId].file_path] = NoFile
    THEN [ok |-> FALSE, error |-> "Failed to download certificate file", calls |-> FileCalls]
    ELSE IF ~configOk
    THEN [ok |-> FALSE, error |-> "Missing blockchain configuration environment variables",
          calls |-> FileCalls]
    ELSE [ok |-> TRUE, error |-> "", calls |-> FileCalls,
          loc |-> [certificateId |-> certificateId, auth |-> auth,
                   donor |-> donorWalletAddress.acct,
                   eligible |-> eligible, adminNotes |-> adminNotes,
                   user |-> "hospital1",
                   certHash |-> IF rows[certificateId].cert_hash = Null THEN <<>>
                                ELSE rows[certificateId].cert_hash[1],
                   tx |-> 0]]

\* lines 44-131 over a record store (rows) and a file store (store):
\* authentication, role, body, address, row, file, hash, configuration
PrepareOn(rows, store, auth, certificateId, donorWalletAddress, eligible, adminNotes, downloadOk, configOk) ==
    IF auth = "noheader"
    THEN [ok |-> FALSE, error |-> "Missing authorization header", calls |-> <<>>]
    ELSE IF auth = "invalid"
    THEN [ok |-> FALSE, error |-> "Unauthorized", calls |-> <<"auth.getUser">>]
    ELSE IF ~IsHospital(auth)
    THEN [ok |-> FALSE, error |-> "Only hospital staff can verify certificates",
          calls |-> AuthCalls]
    ELSE IF certificateId = 0 \/ donorWalletAddress.form = "empty"
    THEN [ok |-> FALSE, error |-> "Missing required fields: certificateId, donorWalletAddress",
          calls |-> AuthCalls]
    ELSE IF ~isAddress(donorWalletAddress)
    THEN [ok |-> FALSE, error |-> "Invalid Ethereum address format", calls |-> AuthCalls]
    ELSE IF ~rows[certificateId].present
    THEN [ok |-> FALSE, error |-> "Certificate not found", calls |-> RowCalls]
    ELSE IF ~downloadOk \/ store[rows[certificateId].file_path] = NoFile
    THEN [ok |-> FALSE, error |-> "Failed to download certificate file", calls |-> FileCalls]
    ELSE IF ~configOk
    THEN [ok |-> FALSE, error |-> "Missing blockchain configuration environment variables",
          calls |-> FileCalls]
    ELSE [ok |-> TRUE, error |-> "", calls |-> FileCalls,
          loc |-> [certificateId |-> certificateId, auth |-> auth,
                   donor |-> donorWalletAddress.acct,
                   eligible |-> eligible, adminNotes |-> adminNotes,
                   user |-> "hospital1",
                   certHash |-> computeFileHash(store[rows[certificateId].file_path][1]),
                   tx |-> 0]]

\* lines 44-131 in the current state
Prepare(auth, certificateId, donorWalletAddress, eligible, adminNotes, downloadOk, configOk) ==
    PrepareOn(certs, files, auth, certificateId, donorWalletAddress, eligible, adminNotes,
              downloadOk, configOk)

FreeTx == {t \in TxId : txs[t].status = "none"}

\* variant: the transaction is keyed by the address stored in the row at upload
SendToStored(l, sendOk) ==
    IF ~IsBytes32(l.certHash)
    THEN [sent |-> FALSE, error |-> "invalid BytesLike value", calls |-> <<>>]
    ELSE LET stored == certs[l.certificateId].donor_wallet_address.acct
             sim == storeVerification(Wallet, stored, ToBytes32(l.certHash),
                                      l.eligible, now)
         IN IF sim.reverted
            THEN [sent |-> FALSE, error |-> sim.reason, calls |-> <<"contract.storeVerification">>]
            ELSE IF ~sendOk
            THEN [sent |-> FALSE, error |-> "network error",
                  calls |-> <<"contract.storeVerification">>]
            ELSE [sent |-> TRUE, error |-> "", calls |-> <<"contract.storeVerification">>,
                  tx |-> [status |-> "pending", donor |-> stored,
                          certHash |-> ToBytes32(l.certHash), eligible |-> l.eligible,
                          reported |-> FALSE]]

\* contract.storeVerification(...) of lines 134-138: argument coding, gas
\* estimation (a call that would revert is not sent), then the send
\* (reported: the request that sent the transaction has answered with success)
SendTransaction(l, sendOk) ==
    IF ~IsBytes32(l.certHash)
    THEN [sent |-> FALSE, error |-> "invalid BytesLike value", calls |-> <<>>]
    ELSE LET sim == storeVerification(Wallet, l.donor, ToBytes32(l.certHash),
                                      l.eligible, now)
         IN IF sim.reverted
            THEN [sent |-> FALSE, error |-> sim.reason, calls |-> <<"contract.storeVerification">>]
            ELSE IF ~sendOk
            THEN [sent |-> FALSE, error |-> "network error",
                  calls |-> <<"contract.storeVerification">>]
            ELSE [sent |-> TRUE, error |-> "", calls |-> <<"contract.storeVerification">>,
                  tx |-> [status |-> "pending", donor |-> l.donor,
                          certHash |-> ToBytes32(l.certHash), eligible |-> l.eligible,
                          reported |-> FALSE]]

\* requests take the lowest free slot
FreeProc == {p \in Proc : pc[p] = "idle"}

\* what can go wrong outside the handler during one request
Fault == {"none", "download", "config", "send"}

\* requests: every well-formed one under every fault, and one for each way the
\* authentication or the validation of the body can fail
RequestInput ==
    [auth : {"hospital"}, id : CertId, address : AddrString, eligible : BOOLEAN,
     notes : NotesInput, fault : Fault]
    \cup [auth : AuthInput, id : {0, 1}, address : {GoodAddr}, eligible : {TRUE},
          notes : {""}, fault : {"none"}]

\* a request can be taken: a free slot for it and for its transaction
CanBegin(p) ==
    /\ ret = NoRet
    /\ FreeProc # {} /\ p = Lowest(FreeProc)
    /\ FreeTx # {}

\* the handler from the request i to the submission of its transaction
BeginWith(p, i) ==
    /\ CanBegin(p)
    /\   LET r == Prepare(i.auth, i.id, i.address, i.eligible, i.notes,
                          i.fault # "download", i.fault # "config")
             t == Lowest(FreeTx)
         IN IF ~r.ok
            THEN /\ ret' = Failure(p, "prepare", r.error,
                                 [certificateId |-> i.id, auth |-> i.auth, calls |-> r.calls])
                 /\ UNCHANGED <<pc, loc, txs>>
            ELSE LET x == SendTransaction(r.loc, i.fault # "send")
                 IN IF ~x.sent
                    THEN /\ ret' = Failure(p, "submit", x.error,
                                         WithCalls(r.loc, r.calls \o x.calls))
                         /\ UNCHANGED <<pc, loc, txs>>
                    ELSE /\ txs' = [txs EXCEPT ![t] = x.tx]
                         /\ loc' = [loc EXCEPT ![p] = [r.loc EXCEPT !.tx = t]]
                         /\ pc' = [pc EXCEPT ![p] = "wait"]
                         /\ ret' = ret
    /\ UNCHANGED <<records, admin, events, now, certs, files, writer>>

\* a request from any caller
Begin(p) ==
    /\ CanBegin(p)
    /\ \E i \in RequestInput : BeginWith(p, i)
    /\ UNCHANGED ui

\* the network includes a pending transaction in a block.  The transactions
\* are all sent by the backend wallet, each with the wallet's next nonce: one
\* sent later is included after those sent before it, or in place of one of
\* them (it was given the same nonce), which is then never included.
Mine(t) ==
    /\ ret = NoRet
    /\ txs[t].status = "pending"
    /\ LET x == txs[t]
           r == storeVerification(Wallet, x.donor, x.certHash, x.eligible, now)
       IN /\ Len(r.events) <= MaxEvents
          /\ records' = r.records
          /\ events' = r.events
          /\ writer' = IF r.reverted THEN writer ELSE [writer EXCEPT ![x.donor] = t]
          /\ txs' = [u \in TxId |->
                        IF u = t
                        THEN [txs[u] EXCEPT !.status = IF r.reverted THEN "reverted" ELSE "ok"]
                        ELSE IF u < t /\ txs[u].status = "pending"
                        THEN [txs[u] EXCEPT !.status = "dropped"]
                        ELSE txs[u]]
          /\ ret' = [op |-> "storeVerification", sender |-> Wallet, donor |-> x.donor,
                     certHash |-> x.certHash, eligible |-> x.eligible,
                     timestamp |-> now, reverted |-> r.reverted, reason |-> r.reason,
                     tx |-> t]
    /\ UNCHANGED <<admin, now, certs, files, pc, loc, ui>>

\* variant: no wait, the handler goes on as soon as the transaction is sent
NoWait(status, waitOk) ==
    IF ~waitOk THEN [returns |-> TRUE, thrown |-> TRUE, error |-> "network error"]
    ELSE [returns |-> TRUE, thrown |-> FALSE]

\* variant: a wait that returns the receipt of a reverted transaction
WaitAnyReceipt(status, waitOk) ==
    IF ~waitOk THEN [returns |-> TRUE, thrown |-> TRUE, error |-> "network error"]
    ELSE IF status = "pending" THEN [returns |-> FALSE]
    ELSE [returns |-> TRUE, thrown |-> FALSE]

\* tx.wait() of line 143: returns once the transaction is mined, throws when it
\* reverted, when another transaction was included in its place, or when the
\* provider fails
WaitForReceipt(status, waitOk) ==
    IF ~waitOk THEN [returns |-> TRUE, thrown |-> TRUE, error |-> "network error"]
    ELSE IF status = "pending" THEN [returns |-> FALSE]
    ELSE IF status = "reverted"
    THEN [returns |-> TRUE, thrown |-> TRUE, error |-> "transaction execution reverted"]
    ELSE IF status = "dropped"
    THEN [returns |-> TRUE, thrown |-> TRUE, error |-> "transaction was replaced"]
    ELSE [returns |-> TRUE, thrown |-> FALSE]

\* the collaborators called when tx.wait() has returned or thrown (line 143) and
\* when the update has been issued (lines 148-159)
\* variant: a failed wait is followed by a second submission
RetryCalls == FileCalls \o <<"contract.storeVerification", "tx.wait",
                             "contract.storeVerification", "tx.wait">>

WaitCalls == FileCalls \o <<"contract.storeVerification", "tx.wait">>
UpdateCalls == WaitCalls \o <<"donor_certificates.update">>

\* variant: a row that holds a decision is left as it is
UpdateOnce(row, l) ==
    IF row.eligible # Null THEN row
    ELSE [row EXCEPT !.cert_hash = Some(l.certHash),
                     !.eligible = Some(l.eligible),
                     !.tx_hash = Some(l.tx),
                     !.chain_address = Some(ContractAddress),
                     !.verified_at = Some(now),
                     !.reviewed_by = Some(l.user),
                     !.admin_notes = IF l.adminNotes = "" THEN Null ELSE Some(l.adminNotes)]

\* variant: the row is updated only by the request whose transaction is the
\* last one committed for the address
UpdateIfLast(row, l) ==
    IF writer[l.donor] # l.tx THEN row
    ELSE [row EXCEPT !.cert_hash = Some(l.certHash),
                     !.eligible = Some(l.eligible),
                     !.tx_hash = Some(l.tx),
                     !.chain_address = Some(ContractAddress),
                     !.verified_at = Some(now),
                     !.reviewed_by = Some(l.user),
                     !.admin_notes = IF l.adminNotes = "" THEN Null ELSE Some(l.adminNotes)]

\* variant: the update also stores the address of the request in the row
UpdateWithAddress(row, l) ==
    [row EXCEPT !.cert_hash = Some(l.certHash),
                !.eligible = Some(l.eligible),
                !.tx_hash = Some(l.tx),
                !.chain_address = Some(ContractAddress),
                !.verified_at = Some(now),
                !.reviewed_by = Some(l.user),
                !.admin_notes = IF l.adminNotes = "" THEN Null ELSE Some(l.adminNotes),
                !.donor_wallet_address = [acct |-> l.donor, form |-> "hex"]]

\* the row as the update of lines 148-159 leaves it
UpdatedRow(row, l) ==
    [row EXCEPT !.cert_hash = Some(l.certHash),
                !.eligible = Some(l.eligible),
                !.tx_hash = Some(l.tx),
                !.chain_address = Some(ContractAddress),
                !.verified_at = Some(now),
                !.reviewed_by = Some(l.user),
                !.admin_notes = IF l.adminNotes = "" THEN Null ELSE Some(l.adminNotes)]

\* variant: when the wait fails the handler looks the transaction up and, if
\* it is committed, updates the row before it answers with the error
FinishReconcile(p) ==
    /\ ret = NoRet
    /\ pc[p] = "wait"
    /\ \E waitOk \in BOOLEAN, dbOk \in BOOLEAN :
         LET l == loc[p]
             w == WaitForReceipt(txs[l.tx].status, waitOk)
         IN /\ w.returns
            /\ IF w.thrown
               THEN /\ ret' = Failure(p, "wait", w.error, WithCalls(l, WaitCalls))
                    /\ certs' = IF txs[l.tx].status = "ok"
                                THEN [certs EXCEPT ![l.certificateId] = UpdatedRow(@, l)]
                                ELSE certs
                    /\ txs' = txs
               ELSE IF ~dbOk
               THEN /\ ret' = Failure(p, "update", DbFailed, WithCalls(l, UpdateCalls))
                    /\ certs' = certs
                    /\ txs' = txs
               ELSE /\ certs' = [certs EXCEPT ![l.certificateId] = UpdatedRow(@, l)]
                    /\ txs' = [txs EXCEPT ![l.tx].reported = TRUE]
                    /\ ret' = Success(p, WithCalls(l, UpdateCalls))
    /\ pc' = [pc EXCEPT ![p] = "idle"]
    /\ loc' = [loc EXCEPT ![p] = NoLoc]
    /\ UNCHANGED <<records, admin, events, now, files, writer>>

\* the handler from tx.wait() to its response
FinishWith(p) ==
    /\ ret = NoRet
    /\ pc[p] = "wait"
    /\ \E waitOk \in BOOLEAN, dbOk \in BOOLEAN :
         LET l == loc[p]
             w == WaitForReceipt(txs[l.tx].status, waitOk)
         IN /\ w.returns
            /\ IF w.thrown
               THEN /\ ret' = Failure(p, "wait", w.error, WithCalls(l, WaitCalls))
                    /\ certs' = certs
                    /\ txs' = txs
               ELSE IF ~dbOk
               THEN /\ ret' = Failure(p, "update", DbFailed, WithCalls(l, UpdateCalls))
                    /\ certs' = certs
                    /\ txs' = txs
               ELSE /\ certs' = [certs EXCEPT ![l.certificateId] = UpdatedRow(@, l)]
                    /\ txs' = [txs EXCEPT ![l.tx].reported = TRUE]
                    /\ ret' = Success(p, WithCalls(l, UpdateCalls))
    /\ pc' = [pc EXCEPT ![p] = "idle"]
    /\ loc' = [loc EXCEPT ![p] = NoLoc]
    /\ UNCHANGED <<records, admin, events, now, files, writer>>

Finish(p) ==
    /\ FinishWith(p)
    /\ UNCHANGED ui

(***************************************************************************)
(* CertificateApproval: one instance of the component.  Its requests are   *)
(* the calls of verifyCertificateOnBlockchain, served by the edge function *)
(* above; while loading is true the component renders no control.          *)
(***************************************************************************)
\* getPendingCertificates(): the rows with eligible null
getPendingCertificates == {c \in CertId : certs[c].present /\ certs[c].eligible = Null}

\* loadCertificates() of the mount
LoadCertificates ==
    /\ ret = NoRet
    /\ loading
    /\ pendingCerts' = getPendingCertificates
    /\ loading' = FALSE
    /\ UNCHANGED <<reviewModal, modalWalletAddress, processingId>>
    /\ UNCHANGED <<records, admin, events, now, ret, certs, files, txs, writer, pc, loc>>

\* the Review button of a pending card
openReviewModal(certificate) ==
    /\ ret = NoRet
    /\ ~loading
    /\ certificate \in pendingCerts
    /\ reviewModal' = Some(certificate)
    /\ modalWalletAddress' = certs[certificate].donor_wallet_address
    /\ UNCHANGED <<processingId, pendingCerts, loading>>
    /\ UNCHANGED <<records, admin, events, now, ret, certs, files, txs, writer, pc, loc>>

\* the controls of the review modal are rendered, and Cancel / Approve and
\* Reject are not disabled
ModalShown == ~loading /\ reviewModal # Null
CancelEnabled == ModalShown /\ processingId # reviewModal
DecideEnabled == ModalShown /\ modalWalletAddress.form # "empty" /\ processingId # reviewModal

\* the Cancel button
closeReviewModal ==
    /\ ret = NoRet
    /\ CancelEnabled
    /\ reviewModal' = Null
    /\ modalWalletAddress' = NoAddress
    /\ UNCHANGED <<processingId, pendingCerts, loading>>
    /\ UNCHANGED <<records, admin, events, now, ret, certs, files, txs, writer, pc, loc>>

\* what the reviewer types into the address field
WalletEdit == {NoAddress, [acct |-> Deployer, form |-> "hex"],
               [acct |-> ZeroAddress, form |-> "malformed"]}

setWalletAddress ==
    /\ ret = NoRet
    /\ ModalShown
    /\ \E a \in WalletEdit : modalWalletAddress' = a
    /\ UNCHANGED <<reviewModal, processingId, pendingCerts, loading>>
    /\ UNCHANGED <<records, admin, events, now, ret, certs, files, txs, writer, pc, loc>>

\* handleApprove (eligible = TRUE) and handleReject (eligible = FALSE) up to
\* the request; a request answered at once is settled in the same step
handleDecision(eligible) ==
    /\ ret = NoRet
    /\ DecideEnabled
    /\ IF ~AddressRegex(modalWalletAddress)
       THEN /\ ret' = [op |-> "alert", error |-> "Invalid Ethereum wallet address format"]
            /\ UNCHANGED <<records, admin, events, now, certs, files, txs, writer, pc, loc>>
            /\ UNCHANGED processingId
       ELSE /\ \E p \in Proc, fault \in Fault :
                 BeginWith(p, [auth |-> "hospital", id |-> reviewModal[1],
                               address |-> modalWalletAddress, eligible |-> eligible,
                               notes |-> IF eligible THEN "" ELSE "Certificate rejected",
                               fault |-> fault])
            /\ processingId' = IF ret'.op = "decide" THEN Null ELSE reviewModal
    /\ UNCHANGED <<reviewModal, modalWalletAddress, pendingCerts, loading>>

handleApprove == handleDecision(TRUE)
handleReject == handleDecision(FALSE)

\* the rest of handleApprove / handleReject when the request settles: on
\* success loadCertificates() and closeReviewModal(); finally
\* setProcessingId(null)
Settle(p) ==
    /\ FinishWith(p)
    /\ IF ret'.success
       THEN /\ pendingCerts' = {c \in CertId : certs'[c].present /\ certs'[c].eligible = Null}
            /\ reviewModal' = Null
            /\ modalWalletAddress' = NoAddress
       ELSE UNCHANGED <<pendingCerts, reviewModal, modalWalletAddress>>
    /\ processingId' = Null
    /\ UNCHANGED loading

Next ==
    \/ Return
    \/ HandOver
    \/ Upload
    \/ \E p \in Proc : Begin(p)
    \/ \E t \in TxId : Mine(t)
    \/ \E p \in Proc : Finish(p)

Spec == Init /\ [][Next]_vars

(***************************************************************************)
(* The workflow with the requests served one at a time: a request is taken *)
(* only when no other request is running.                                  *)
(***************************************************************************)
BeginAlone(p) ==
    /\ \A q \in Proc : pc[q] = "idle"
    /\ Begin(p)

NextSerial ==
    \/ Return
    \/ HandOver
    \/ Upload
    \/ \E p \in Proc : BeginAlone(p)
    \/ \E t \in TxId : Mine(t)
    \/ \E p \in Proc : Finish(p)

SpecSerial == Init /\ [][NextSerial]_vars

(***************************************************************************)
(* The contract alone, called by any account with any arguments.           *)
(***************************************************************************)
NextLedger ==
    \/ Return
    \/ Tick
    \/ CallStoreVerification
    \/ CallChangeAdmin
    \/ CallView
    \/ VerifyByFile
    \/ VerifyByAddress

SpecLedger == Init /\ [][NextLedger]_vars

(***************************************************************************)
(* The verifier beside the donors' uploads and the admin's writes.         *)
(***************************************************************************)
NextVerifier ==
    \/ Return
    \/ Upload
    \/ CallStoreVerification
    \/ VerifyByFile
    \/ VerifyByAddress

SpecVerifier == Init /\ [][NextVerifier]_vars

(***************************************************************************)
(* The edge function called from one CertificateApproval instance.         *)
(***************************************************************************)
NextApproval ==
    \/ Return
    \/ HandOver
    \/ Upload
    \/ LoadCertificates
    \/ \E c \in CertId : openReviewModal(c)
    \/ closeReviewModal
    \/ setWalletAddress
    \/ handleApprove
    \/ handleReject
    \/ \E t \in TxId : Mine(t)
    \/ \E p \in Proc : Settle(p)

SpecApproval == Init /\ [][NextApproval]_vars

(***************************************************************************)
(* The workflow together with the verifier: every path that validates its   *)
(* input.                                                                  *)
(***************************************************************************)
NextSystem ==
    \/ Return
    \/ HandOver
    \/ Upload
    \/ \E p \in Proc : Begin(p)
    \/ \E t \in TxId : Mine(t)
    \/ \E p \in Proc : Finish(p)
    \/ VerifyByFile
    \/ VerifyByAddress

SpecSystem == Init /\ [][NextSystem]_vars

(***************************************************************************)
(* Properties.                                                             *)
(***************************************************************************)

\* C1: a storeVerification call reverts exactly when its caller is not the
\* current admin or its hash is all-zero; a reverted call leaves getRecord of
\* every address and the admin as they were and appends no event.
C1_RevertExactlyAndFrame ==
    [][ret.op = "none" /\ ret'.op = "storeVerification" =>
         /\ ret'.reverted <=> (ret'.sender # admin \/ ret'.certHash = ZeroHash)
         /\ ret'.reverted =>
              /\ \A a \in Account : getRecord(a)' = getRecord(a)
              /\ admin' = admin
              /\ events' = events]_vars

\* the admin's call with the all-zero hash, on an address that has a record, has reverted
C1_Witness ==
    /\ ret.op = "storeVerification"
    /\ ret.reverted
    /\ ret.sender = admin
    /\ ret.certHash = ZeroHash
    /\ records[ret.donor].exists

\* C2: within one request the update of the row is attempted only once the
\* request's storeVerification transaction is confirmed: a row that exists
\* changes only in the step of a request whose transaction has been mined
\* successfully, and a request reaches the update (failed or not) only then.
C2_UpdateAfterConfirmation ==
    [][/\ \A c \in CertId :
            certs[c].present /\ certs'[c] # certs[c] =>
                \E p \in Proc : /\ pc[p] = "wait" /\ pc'[p] = "idle"
                                /\ loc[p].certificateId = c
                                /\ txs[loc[p].tx].status = "ok"
                                /\ certs'[c].tx_hash = Some(loc[p].tx)
       /\ ret.op = "none" /\ ret'.op = "decide" /\ ret'.stage \in {"update", "done"} =>
            /\ ret'.call.tx \in TxId
            /\ txs[ret'.call.tx].status = "ok"]_vars

\* a request has succeeded and its row carries the transaction it waited for
C2_Witness ==
    /\ ret.op = "decide"
    /\ ret.success
    /\ certs[ret.call.certificateId].tx_hash = Some(ret.call.tx)
    /\ txs[ret.call.tx].status = "ok"

\* C3: when the ledger write of a request fails (the call is rejected, or the
\* submission or the confirmation throws) the request returns an error and
\* updates no row: every column of every row stays as it was, so after a first
\* decision that failed eligible and tx_hash are still null.
C3_LedgerFailureLeavesRow ==
    [][ret.op = "none" /\ ret'.op = "decide" /\ ret'.stage # "prepare" =>
         /\ ret'.stage \in {"submit", "wait"} =>
              ~ret'.success /\ ret'.status = 400 /\ certs' = certs
         /\ (ret'.call.tx = 0 \/ txs[ret'.call.tx].status # "ok") =>
              ~ret'.success /\ ret'.status = 400 /\ certs' = certs]_vars

\* the transaction of a first decision has reverted and the request has failed
C3_Witness ==
    /\ ret.op = "decide"
    /\ ret.stage = "wait"
    /\ txs[ret.call.tx].status = "reverted"
    /\ certs[ret.call.certificateId].eligible = Null
    /\ certs[ret.call.certificateId].tx_hash = Null

C5_SecondCallOverwrites ==
    ret.op = "storeVerification" /\ ~ret.reverted =>
        getRecord(ret.donor) = [certHash |-> ret.certHash, eligible |-> ret.eligible,
                                timestamp |-> ret.timestamp, exists |-> TRUE]

\* a second call has succeeded whose hash, eligibility and timestamp all differ
\* from those of the first call for the address
C5_Witness ==
    /\ ret.op = "storeVerification"
    /\ ~ret.reverted
    /\ Len(events) >= 2
    /\ events[Len(events)].name = "RecordUpdated"
    /\ events[Len(events) - 1].name = "RecordAdded"
    /\ events[Len(events) - 1].donor = ret.donor
    /\ events[Len(events) - 1].certHash # ret.certHash
    /\ events[Len(events) - 1].eligible # ret.eligible
    /\ events[Len(events) - 1].timestamp < ret.timestamp

\* C6 as stated: after a successful request with eligible = true for a
\* certificate and an address, verification of the certificate's file against
\* the address returns matches = true and eligible = true.
C6_AsStated ==
    ret.op = "decide" /\ ret.success /\ ret.call.eligible =>
        LET out == handleVerifyFile(files[certs[ret.call.certificateId].file_path],
                                    [acct |-> ret.call.donor, form |-> "hex"], TRUE, TRUE)
        IN /\ out.verificationResult # Null
           /\ out.verificationResult[1].matches
           /\ out.verificationResult[1].eligible

\* C6, amended: after a successful request with eligible = true for a
\* certificate and an address, and as long as no other storeVerification for
\* the address has been committed after the request's transaction,
\* verification of the certificate's file against the address returns
\* matches = true and eligible = true.
C6_RoundTrip ==
    ret.op = "decide" /\ ret.success /\ ret.call.eligible
        /\ writer[ret.call.donor] = ret.call.tx =>
        LET out == handleVerifyFile(files[certs[ret.call.certificateId].file_path],
                                    [acct |-> ret.call.donor, form |-> "hex"], TRUE, TRUE)
        IN /\ out.verificationResult # Null
           /\ out.verificationResult[1].matches
           /\ out.verificationResult[1].eligible

\* an approval has succeeded and its write is the latest for the address
C6_Witness ==
    /\ ret.op = "decide"
    /\ ret.success
    /\ ret.call.eligible
    /\ writer[ret.call.donor] = ret.call.tx

\* C7 as stated: after a successful request for a certificate with file F and
\* an address, verification of any other file against the address returns
\* matches = false.
C7_AsStated ==
    ret.op = "decide" /\ ret.success =>
        \A b \in FileBytes :
            Some(b) # files[certs[ret.call.certificateId].file_path] =>
                LET out == handleVerifyFile(Some(b), [acct |-> ret.call.donor, form |-> "hex"],
                                            TRUE, TRUE)
                IN /\ out.verificationResult # Null
                   /\ ~out.verificationResult[1].matches

\* C7, amended: after a successful request for a certificate with file F and
\* an address, and as long as no other storeVerification for the address has
\* been committed after the request's transaction, verification of any other
\* file against the address returns matches = false.
C7_TamperDetection ==
    ret.op = "decide" /\ ret.success /\ writer[ret.call.donor] = ret.call.tx =>
        \A b \in FileBytes :
            Some(b) # files[certs[ret.call.certificateId].file_path] =>
                LET out == handleVerifyFile(Some(b), [acct |-> ret.call.donor, form |-> "hex"],
                                            TRUE, TRUE)
                IN /\ out.verificationResult # Null
                   /\ ~out.verificationResult[1].matches

\* a request has succeeded, its write is the latest for the address, and the
\* record holds the hash of its file while another file exists
C7_Witness ==
    /\ ret.op = "decide"
    /\ ret.success
    /\ writer[ret.call.donor] = ret.call.tx
    /\ records[ret.call.donor].certHash = ToBytes32(ret.call.certHash)
    /\ \E b \in FileBytes : Some(b) # files[certs[ret.call.certificateId].file_path]

\* C8: verify returns (false, 0, false) for an address without a record;
\* otherwise it returns the stored eligibility and timestamp, and matches is
\* true exactly when the hash given equals the stored hash, whatever the
\* stored eligibility.
C8_VerifyResult ==
    ret.op = "view" =>
        IF ~records[ret.donor].exists
        THEN ret.verify = [eligible |-> FALSE, timestamp |-> 0, matches |-> FALSE]
        ELSE /\ ret.verify.eligible = records[ret.donor].eligible
             /\ ret.verify.timestamp = records[ret.donor].timestamp
             /\ ret.verify.matches <=> (ret.certHash = records[ret.donor].certHash)

\* verify has returned matches = true for a donor recorded as not eligible
C8_Witness ==
    /\ ret.op = "view"
    /\ records[ret.donor].exists
    /\ ~records[ret.donor].eligible
    /\ ret.verify.matches
    /\ ~ret.verify.eligible

\* C9: for an address no successful storeVerification has targeted, getRecord
\* returns the zero hash, eligible = false, timestamp 0 and exists = false,
\* hasRecord returns false, and the verifier's lookup by address finds no
\* record (getDonorBlockchainRecord returns null).
C9_UntargetedAddress ==
    \A a \in Account :
        (~\E i \in 1..Len(events) :
              /\ events[i].name \in {"RecordAdded", "RecordUpdated"}
              /\ events[i].donor = a) =>
            /\ getRecord(a) = [certHash |-> ZeroHash, eligible |-> FALSE,
                               timestamp |-> 0, exists |-> FALSE]
            /\ ~hasRecord(a)
            /\ getDonorBlockchainRecord([acct |-> a, form |-> "hex"], TRUE).record = Null
            /\ ret.op = "view" /\ ret.donor = a =>
                 /\ ret.getRecord = [certHash |-> ZeroHash, eligible |-> FALSE,
                                     timestamp |-> 0, exists |-> FALSE]
                 /\ ~ret.hasRecord
            /\ ret.op = "verifyByAddress" /\ ret.address.acct = a /\ ~ret.record.thrown =>
                 ret.record.record = Null

\* the lookup of an address never written has returned null while another
\* address has a record
C9_Witness ==
    /\ ret.op = "verifyByAddress"
    /\ ~ret.record.thrown
    /\ ret.record.record = Null
    /\ ~records[ret.address.acct].exists
    /\ \E a \in Account : records[a].exists

\* C10: the client's computeCertificateHash and the server's computeFileHash
\* return the same string for every byte sequence: for every file of the
\* model, and so the hash a request computes from the stored file is the hash
\* the upload stored in the row.
C10_SameHash ==
    /\ \A b \in FileBytes : computeCertificateHash(b, TRUE).hash = computeFileHash(b)
    /\ \A p \in Proc :
         pc[p] = "wait" =>
             certs[loc[p].certificateId].cert_hash = Some(loc[p].certHash)

\* a request holds the server's hash of a file whose row still holds the
\* client's hash from the upload
C10_Witness ==
    \E p \in Proc :
        /\ pc[p] = "wait"
        /\ certs[loc[p].certificateId].tx_hash = Null
        /\ certs[loc[p].certificateId].cert_hash = Some(loc[p].certHash)

\* C11: the hash a request writes to the ledger and to the row is the hash of
\* the bytes stored at the row's file_path; two requests that differ only in
\* the cert_hash the row holds (the body carries no hash) prepare the same
\* call and so submit the same transaction.
C11_HashRecomputed ==
    /\ \A p \in Proc :
         pc[p] = "wait" =>
             LET h == computeFileHash(files[certs[loc[p].certificateId].file_path][1])
             IN /\ loc[p].certHash = h
                /\ txs[loc[p].tx].certHash = ToBytes32(h)
    /\ \A c \in CertId :
         certs[c].present /\ certs[c].tx_hash # Null =>
             certs[c].cert_hash = Some(computeFileHash(files[certs[c].file_path][1]))
    /\ ret = NoRet =>
         \A c \in CertId, e \in BOOLEAN :
             certs[c].present =>
                 \A h \in {Null, Some(<<"0", "x">>)} \cup {Some(computeFileHash(b)) : b \in FileBytes} :
                     LET r1 == PrepareOn(certs, files, "hospital", c, GoodAddr, e, "", TRUE, TRUE)
                         r2 == PrepareOn([certs EXCEPT ![c].cert_hash = h], files,
                                         "hospital", c, GoodAddr, e, "", TRUE, TRUE)
                     IN /\ r1 = r2
                        /\ r1.ok
                        /\ SendTransaction(r1.loc, TRUE) = SendTransaction(r2.loc, TRUE)

\* the transaction of a request has been mined and the ledger holds the hash of
\* the stored file, while another file with another hash exists
C11_Witness ==
    \E p \in Proc :
        /\ pc[p] = "wait"
        /\ txs[loc[p].tx].status = "ok"
        /\ records[loc[p].donor].certHash
             = SHA256(files[certs[loc[p].certificateId].file_path][1])
        /\ \E b \in FileBytes : SHA256(b) # records[loc[p].donor].certHash

C13_AsStated ==
    [][ret.op = "none" /\ ret'.op = "changeAdmin" =>
         /\ ~ret'.reverted <=> (ret'.sender = admin /\ ret'.newAdmin # ZeroAddress)
         /\ ~ret'.reverted =>
              /\ admin' = ret'.newAdmin
              /\ events' = Append(events, [name |-> "AdminChanged", oldAdmin |-> admin,
                                           newAdmin |-> ret'.newAdmin])
              /\ records' = records
              /\ \A d \in DonorAccount, h \in HashArg \ {ZeroHash}, e \in BOOLEAN :
                   /\ ~(storeVerification(ret.newAdmin, d, h, e, now).reverted)'
                   /\ (storeVerification(ret.sender, d, h, e, now).reverted)'
         /\ ret'.reverted =>
              /\ admin' = admin
              /\ records' = records
              /\ events' = events]_vars

\* C13, amended: as stated, except that storeVerification by the old admin
\* reverts only when new differs from the old admin (the admin may name
\* itself), and storeVerification by new succeeds for a hash that is not
\* all-zero.
C13_ChangeAdmin ==
    [][ret.op = "none" /\ ret'.op = "changeAdmin" =>
         /\ ~ret'.reverted <=> (ret'.sender = admin /\ ret'.newAdmin # ZeroAddress)
         /\ ~ret'.reverted =>
              /\ admin' = ret'.newAdmin
              /\ events' = Append(events, [name |-> "AdminChanged", oldAdmin |-> admin,
                                           newAdmin |-> ret'.newAdmin])
              /\ records' = records
              /\ \A d \in DonorAccount, h \in HashArg \ {ZeroHash}, e \in BOOLEAN :
                   /\ ~(storeVerification(ret.newAdmin, d, h, e, now).reverted)'
                   /\ ret'.newAdmin # ret'.sender => (storeVerification(ret.sender, d, h, e, now).reverted)'
         /\ ret'.reverted =>
              /\ admin' = admin
              /\ records' = records
              /\ events' = events]_vars

\* the admin has handed the role to another account while a record exists
C13_Witness ==
    /\ ret.op = "changeAdmin"
    /\ ~ret.reverted
    /\ ret.newAdmin # ret.sender
    /\ admin = ret.newAdmin
    /\ \E a \in Account : records[a].exists

\* C14: a request submits at most one storeVerification transaction, whatever
\* its outcome: a step sends at most one transaction, and only as the
\* submission of a request that has sent none; the step that ends a request
\* (failed submission, failed confirmation, failed update, success) sends none;
\* and the calls of a finished request hold at most one submission.
C14_AtMostOneTransaction ==
    [][/\ \A t \in TxId :
            txs[t].status = "none" /\ txs'[t].status # "none" =>
                /\ \A u \in TxId \ {t} : txs'[u] = txs[u]
                /\ \E p \in Proc : /\ pc[p] = "idle" /\ pc'[p] = "wait"
                                   /\ loc'[p].tx = t
                                   /\ \A q \in Proc \ {p} : pc[q] = "wait" => loc[q].tx # t
       /\ \A p \in Proc : pc[p] = "wait" /\ pc'[p] = "wait" => loc'[p].tx = loc[p].tx
       /\ ret.op = "none" /\ ret'.op = "decide" =>
            /\ \A t \in TxId : (txs'[t].status = "none") <=> (txs[t].status = "none")
            /\ Cardinality({k \in 1..Len(ret'.call.calls) :
                                ret'.call.calls[k] = "contract.storeVerification"}) <= 1]_vars

\* a request has failed at the confirmation of its transaction, which is still
\* pending and is the only one sent
C14_Witness ==
    /\ ret.op = "decide"
    /\ ret.stage = "wait"
    /\ txs[ret.call.tx].status = "pending"
    /\ Cardinality({t \in TxId : txs[t].status # "none"}) = 1

\* C15: in every state reachable by uploads and requests, a row whose eligible
\* is not null has a cert_hash and a tx_hash that are not null, and its
\* cert_hash, eligible and tx_hash are the hash, the eligibility and the
\* identity of one confirmed storeVerification transaction.
C15_DecidedRow ==
    \A c \in CertId :
        certs[c].present /\ certs[c].eligible # Null =>
            /\ certs[c].cert_hash # Null
            /\ certs[c].tx_hash # Null
            /\ certs[c].tx_hash[1] \in TxId
            /\ txs[certs[c].tx_hash[1]].status = "ok"
            /\ IsBytes32(certs[c].cert_hash[1])
            /\ txs[certs[c].tx_hash[1]].certHash = ToBytes32(certs[c].cert_hash[1])
            /\ txs[certs[c].tx_hash[1]].eligible = certs[c].eligible[1]

\* a row has been decided while another confirmed transaction carries the
\* opposite eligibility
C15_Witness ==
    \E c \in CertId, t \in TxId :
        /\ certs[c].present
        /\ certs[c].eligible # Null
        /\ certs[c].tx_hash # Some(t)
        /\ txs[t].status = "ok"
        /\ txs[t].eligible # certs[c].eligible[1]

\* C16: verifyByFile and verifyByAddress are read-only: they leave every row,
\* the stored files, every ledger record, the admin and the event log
\* unchanged; and their result depends on the input and the ledger only: a
\* step that changes the record store or the file store and leaves the ledger
\* records as they were changes, for no address and no file's hash, what the
\* lookup returns and what the two reads of the ledger return (the only
\* reads of state under handleVerifyFile and handleLookupAddress).
C16_VerifierReadOnly ==
    [][/\ ret.op = "none" /\ ret'.op \in {"verifyByFile", "verifyByAddress"} =>
            UNCHANGED <<certs, files, records, admin, events, txs, writer, now>>
       /\ records' = records /\ (certs' # certs \/ files' # files) =>
            \A a \in AddrString :
                /\ handleLookupAddress(a, TRUE)' = handleLookupAddress(a, TRUE)
                /\ getDonorBlockchainRecord(a, TRUE)' = getDonorBlockchainRecord(a, TRUE)
                /\ \A h \in {computeCertificateHash(b, TRUE).hash : b \in FileBytes} :
                     verifyHashOnBlockchain(a, h, TRUE)' = verifyHashOnBlockchain(a, h, TRUE)]_vars

\* a lookup of the address of an uploaded, undecided certificate has found no
\* record on a ledger that holds a record for another address
C16_Witness ==
    /\ ret.op = "verifyByAddress"
    /\ ret.out.error = Some("No verification record found for this address")
    /\ \E c \in CertId : certs[c].present /\ certs[c].donor_wallet_address = ret.address
    /\ \E d \in Account : records[d].exists

\* C17: every successful storeVerification appends exactly one event:
\* RecordAdded(address, hash, eligible, timestamp, writer) if the address had
\* no record before the call, otherwise RecordUpdated with the hash stored
\* just before the call as old hash and the new hash; so for each address the
\* log is one RecordAdded followed by RecordUpdated events only, each carrying
\* as old hash the hash of the event before it for the address.
C17_EventPerWrite ==
    [][/\ ret.op = "none" /\ ret'.op = "storeVerification" /\ ~ret'.reverted =>
            events' = Append(events,
                IF ~records[ret'.donor].exists
                THEN [name |-> "RecordAdded", donor |-> ret'.donor,
                      certHash |-> ret'.certHash, eligible |-> ret'.eligible,
                      timestamp |-> now, verifier |-> ret'.sender]
                ELSE [name |-> "RecordUpdated", donor |-> ret'.donor,
                      oldHash |-> records[ret'.donor].certHash,
                      newHash |-> ret'.certHash, eligible |-> ret'.eligible,
                      timestamp |-> now])
       /\ \A a \in Account :
            LET idx == {i \in 1..Len(events') :
                            /\ events'[i].name \in {"RecordAdded", "RecordUpdated"}
                            /\ events'[i].donor = a}
            IN \A i \in idx :
                 IF \A j \in idx : i <= j
                 THEN events'[i].name = "RecordAdded"
                 ELSE /\ events'[i].name = "RecordUpdated"
                      /\ LET k == CHOOSE j \in idx : j < i /\ \A m \in idx : m < i => m <= j
                         IN events'[i].oldHash = IF events'[k].name = "RecordAdded"
                                                 THEN events'[k].certHash
                                                 ELSE events'[k].newHash]_vars

\* the third write, an update of an address with a new hash, after a write
\* for another address
C17_Witness ==
    /\ ret.op = "storeVerification"
    /\ ~ret.reverted
    /\ Len(events) = 3
    /\ events[3].name = "RecordUpdated"
    /\ events[3].oldHash # events[3].newHash
    /\ events[2].name = "RecordAdded"
    /\ events[2].donor # events[3].donor

\* C18: a verification that finds no match or no record returns a negative
\* result, it does not fail: verifyByFile on an address without a record, or
\* with a record of another hash, yields a result with matches = false and no
\* error; verifyByAddress on an address without a record returns null, shown
\* as "No verification record found"; and neither outcome is that of a thrown
\* error such as a failed read of the ledger.
C18_NegativeIsNotFailure ==
    ret = NoRet =>
        \A a \in AddrString :
            AddressRegex(a) /\ isAddress(a) =>
                /\ \A b \in FileBytes :
                     ~verify(a.acct, SHA256(b)).matches =>
                         LET out == handleVerifyFile(Some(b), a, TRUE, TRUE)
                             failed == handleVerifyFile(Some(b), a, TRUE, FALSE)
                         IN /\ out.error = Null
                            /\ out.verificationResult # Null
                            /\ ~out.verificationResult[1].matches
                            /\ failed.error # Null
                            /\ failed.verificationResult = Null
                            /\ out # failed
                /\ ~records[a.acct].exists =>
                     /\ getDonorBlockchainRecord(a, TRUE) = [thrown |-> FALSE, record |-> Null]
                     /\ getDonorBlockchainRecord(a, FALSE).thrown
                     /\ handleLookupAddress(a, TRUE).error
                          = Some("No verification record found for this address")
                     /\ \A x \in AddrString, rpcOk \in BOOLEAN :
                          getDonorBlockchainRecord(x, rpcOk).thrown =>
                              handleLookupAddress(x, rpcOk) # handleLookupAddress(a, TRUE)

\* a file has been verified against an address whose record holds another
\* hash: a result, with matches = false
C18_Witness ==
    /\ ret.op = "verifyByFile"
    /\ ret.out.error = Null
    /\ ret.out.verificationResult # Null
    /\ ~ret.out.verificationResult[1].matches
    /\ ret.out.verificationResult[1].timestamp > 0

(***************************************************************************)
(* C19                                                                     *)
(***************************************************************************)
\* the messages of the validation errors on each path
DecideValidationErrors ==
    {"Missing required fields: certificateId, donorWalletAddress",
     "Invalid Ethereum address format"}
UploadValidationErrors ==
    {Some("Please select a file and enter your wallet address"),
     Some("Invalid Ethereum wallet address format")}
VerifierValidationErrors ==
    {Some("Please select a file and enter wallet address"),
     Some("Please enter a wallet address"),
     Some("Invalid Ethereum wallet address format")}

\* the result returned is a validation error
IsValidationError ==
    \/ ret.op = "decide" /\ ret.error \in DecideValidationErrors
    \/ ret.op = "upload" /\ (ret.error \in UploadValidationErrors \/ ret.fileError # Null)
    \/ ret.op \in {"verifyByFile", "verifyByAddress"}
          /\ ret.out.error \in VerifierValidationErrors

\* the collaborators called by the operation whose result is returned
CallsMade ==
    IF ret.op = "decide" THEN ret.call.calls
    ELSE IF ret.op = "upload" THEN ret.calls
    ELSE ret.out.calls

UploadFailures ==
    UploadValidationErrors \cup {Some("Failed to compute hash"), Some("Upload failed")}

\* C20: a row enters the record store only in an upload whose file-store
\* upload succeeded before the insert: the row is pending (eligible, tx_hash
\* and chain_address null) and its file_path is the path of the object this
\* upload stored; an upload that fails the validation of the file or of the
\* address, the hashing or the file upload inserts no row.
C20_InsertAfterUpload ==
    [][/\ \A c \in CertId :
            ~certs[c].present /\ certs'[c].present =>
                /\ ret'.op = "upload" /\ ret'.error = Null /\ ret'.fileError = Null
                /\ ret'.calls = <<"storage.upload", "donor_certificates.insert">>
                /\ certs'[c].eligible = Null
                /\ certs'[c].tx_hash = Null
                /\ certs'[c].chain_address = Null
                /\ certs'[c].file_path \in CertId
                /\ files[certs'[c].file_path] = NoFile
                /\ files'[certs'[c].file_path] # NoFile
                /\ \A d \in CertId \ {c} : certs'[d] = certs[d]
       /\ ret.op = "none" /\ ret'.op = "upload"
             /\ (ret'.error \in UploadFailures \/ ret'.fileError # Null) =>
                certs' = certs
      ]_vars

C20_Witness ==
    /\ ret.op = "upload" /\ ret.error = Null
    /\ \E c \in CertId : /\ certs[c].present
                          /\ certs[c].eligible = Null
                          /\ files[certs[c].file_path] # NoFile

(***************************************************************************)
(* C21                                                                     *)
(***************************************************************************)
\* C21: ledger records are never deleted: in every step, whoever calls
\* storeVerification or changeAdmin with whatever arguments, an address that
\* has a record (hasRecord true) still has one afterwards.
C21_NeverDeleted ==
    [][\A a \in Account : hasRecord(a) => hasRecord(a)']_vars

C21_Witness ==
    /\ Len(events) = MaxEvents
    /\ events[1].name = "RecordAdded"
    /\ events[2].name = "AdminChanged"
    /\ events[3].name = "RecordUpdated" /\ events[3].donor = events[1].donor
    /\ ~events[3].eligible
    /\ hasRecord(events[1].donor)

(***************************************************************************)
(* C22                                                                     *)
(***************************************************************************)
\* C22: last write wins.  Every committed storeVerification transaction of a
\* decide call leaves the record of its address with its own hash and
\* eligibility, whatever was written before; so when two calls for the same
\* certificate and address are in flight and both transactions are
\* committed, the record is that of the transaction committed last, which is
\* one of the two.
C22_LastWriteWins ==
    [][/\ \A t \in TxId :
            txs[t].status = "pending" /\ txs'[t].status = "ok" =>
                /\ writer'[txs[t].donor] = t
                /\ records'[txs[t].donor].certHash = txs[t].certHash
                /\ records'[txs[t].donor].eligible = txs[t].eligible
       /\ \A p, q \in Proc :
            /\ p # q /\ pc'[p] = "wait" /\ pc'[q] = "wait"
            /\ loc'[p].certificateId = loc'[q].certificateId
            /\ loc'[p].donor = loc'[q].donor
            /\ txs'[loc'[p].tx].status = "ok" /\ txs'[loc'[q].tx].status = "ok"
            => LET last == writer'[loc'[p].donor]
               IN /\ last \in {loc'[p].tx, loc'[q].tx}
                  /\ records'[loc'[p].donor].certHash = txs'[last].certHash
                  /\ records'[loc'[p].donor].eligible = txs'[last].eligible
      ]_vars

\* both calls in flight (an approval and a rejection of one certificate for
\* one address), both transactions committed: the record is that of the
\* approval, whose transaction was sent and committed last
C22_Witness ==
    /\ pc[1] = "wait" /\ pc[2] = "wait"
    /\ loc[1].certificateId = loc[2].certificateId
    /\ loc[1].donor = loc[2].donor
    /\ ~loc[1].eligible /\ loc[2].eligible
    /\ txs[loc[1].tx].status = "ok" /\ txs[loc[2].tx].status = "ok"
    /\ writer[loc[1].donor] = loc[2].tx
    /\ records[loc[1].donor].eligible

\* the other call final: the rejection is sent and committed last
C22_OtherOrder ==
    /\ pc[1] = "wait" /\ pc[2] = "wait"
    /\ loc[1].certificateId = loc[2].certificateId
    /\ loc[1].donor = loc[2].donor
    /\ loc[1].eligible /\ ~loc[2].eligible
    /\ txs[loc[1].tx].status = "ok" /\ txs[loc[2].tx].status = "ok"
    /\ writer[loc[1].donor] = loc[2].tx
    /\ ~records[loc[1].donor].eligible

(***************************************************************************)
(* C23                                                                     *)
(***************************************************************************)
\* C23: the update of the row is not tied to the order of the ledger commits:
\* every successful request writes its own eligible and its own transaction
\* into the row and leaves the ledger as it is, whether or not its
\* transaction is the last one committed for the address.  (The witness is
\* the interleaving of the claim.)
C23_UpdateOrderFree ==
    [][ret.op = "none" /\ ret'.op = "decide" /\ ret'.success =>
            /\ certs'[ret'.call.certificateId].eligible = Some(ret'.call.eligible)
            /\ certs'[ret'.call.certificateId].tx_hash = Some(ret'.call.tx)
            /\ txs[ret'.call.tx].status = "ok"
            /\ UNCHANGED <<records, events, writer>>
      ]_vars

\* no call in flight; two requests for one certificate and one address, with
\* different eligible values, have both answered with success; the row holds
\* the eligibility and the transaction of one, the ledger record the
\* eligibility of the other, whose transaction was committed last
C23_Witness ==
    /\ \A p \in Proc : pc[p] = "idle"
    /\ \E c \in CertId, t1, t2 \in TxId :
         /\ t1 # t2
         /\ txs[t1].status = "ok" /\ txs[t2].status = "ok"
         /\ txs[t1].reported /\ txs[t2].reported
         /\ txs[t1].donor = txs[t2].donor
         /\ txs[t1].eligible # txs[t2].eligible
         /\ certs[c].present
         /\ certs[c].tx_hash = Some(t1)
         /\ certs[c].eligible = Some(txs[t1].eligible)
         /\ \A d \in CertId : certs[d].present => certs[d].tx_hash # Some(t2)
         /\ writer[txs[t1].donor] = t2
         /\ records[txs[t1].donor].eligible = txs[t2].eligible

(***************************************************************************)
(* C24                                                                     *)
(***************************************************************************)
\* a request of the instance for the certificate is in flight
InFlight(c) == \E p \in Proc : pc[p] = "wait" /\ loc[p].certificateId = c

\* C24 as stated: while a request started by Approve or Reject for a
\* certificate is in flight, the Approve, Reject and Cancel controls for that
\* certificate are disabled; no second request for it is started from the
\* instance; and processingId is null after the request has settled, with
\* success or with failure.
C24_AsStated ==
    [][/\ \A c \in CertId :
            InFlight(c) /\ ModalShown /\ reviewModal = Some(c) =>
                ~CancelEnabled /\ ~DecideEnabled
       /\ \A p \in Proc :
            pc[p] = "idle" /\ pc'[p] = "wait" => ~InFlight(loc'[p].certificateId)
       /\ \A p \in Proc :
            pc[p] = "wait" /\ pc'[p] = "idle" => processingId' = Null
      ]_vars

(***************************************************************************)
(* C25                                                                     *)
(***************************************************************************)
\* a step of a request: it is taken, it ends, or its response is returned
DecideStep ==
    \/ \E p \in Proc : pc'[p] # pc[p]
    \/ ret.op = "none" /\ ret'.op = "decide"

C26_RecordShape ==
    \A a \in Account :
        /\ \/ /\ ~records[a].exists
              /\ records[a].certHash = ZeroHash
              /\ ~records[a].eligible
              /\ records[a].timestamp = 0
           \/ /\ records[a].exists
              /\ records[a].certHash # ZeroHash
              /\ records[a].donor = a
        /\ hasRecord(a) = getRecord(a).exists

\* the zero address and a donor's address have records, written at different
\* times, and another address has none
C26_Witness ==
    /\ records[ZeroAddress].exists
    /\ \E a, b \in DonorAccount :
         /\ records[a].exists /\ ~records[a].eligible
         /\ records[a].timestamp # records[ZeroAddress].timestamp
         /\ ~records[b].exists

(***************************************************************************)
(* C27                                                                     *)
(***************************************************************************)
\* C27: a successful storeVerification(a, h, e) changes the record of a and
\* nothing else in the ledger: the record of every other address and the
\* admin are as before, and the event log is the old one with exactly one
\* event appended.
C27_OnlyItsRecord ==
    [][ret.op = "none" /\ ret'.op = "storeVerification" /\ ~ret'.reverted =>
            /\ \A b \in Account \ {ret'.donor} : records'[b] = records[b]
            /\ records'[ret'.donor].certHash = ret'.certHash
            /\ records'[ret'.donor].eligible = ret'.eligible
            /\ records'[ret'.donor].exists
            /\ admin' = admin
            /\ Len(events') = Len(events) + 1
            /\ SubSeq(events', 1, Len(events)) = events
      ]_vars

\* a write for one address has just succeeded while the two other addresses
\* hold records with another hash
C27_Witness ==
    /\ ret.op = "storeVerification" /\ ~ret.reverted
    /\ \A b \in Account \ {ret.donor} :
         records[b].exists /\ records[b].certHash # ret.certHash

(***************************************************************************)
(* C28                                                                     *)
(***************************************************************************)
\* C28: the ledger key written by a decide request is the address of the
\* request, whatever address the row holds from the upload: when the
\* transaction of a waiting request is committed, the record written is that
\* of the request's address, it holds the hash of the certificate's file, and
\* no other record (that of the row's stored address included) changes; a
\* request that answers with success has such a committed transaction.
C28_KeyIsRequestAddress ==
    [][/\ \A p \in Proc :
            pc[p] = "wait" /\ ret'.op = "storeVerification" /\ ~ret'.reverted
            /\ ret'.tx = loc[p].tx =>
                LET l == loc[p]
                    row == certs[l.certificateId]
                IN /\ ret'.donor = l.donor
                   /\ records'[l.donor].exists
                   /\ records'[l.donor].certHash =
                        ToBytes32(computeFileHash(files[row.file_path][1]))
                   /\ records'[l.donor].eligible = l.eligible
                   /\ \A b \in Account \ {l.donor} : records'[b] = records[b]
       /\ ret.op = "none" /\ ret'.op = "decide" /\ ret'.success =>
            /\ txs'[ret'.call.tx].status = "ok"
            /\ txs'[ret'.call.tx].donor = ret'.call.donor
      ]_vars

\* a decision on one certificate has succeeded with an address that is not the
\* one stored in its row, and has overwritten the record that a decision on
\* another certificate, with another hash, had written for that address; the
\* address stored in the row has no record
C28_Witness ==
    /\ ret.op = "decide" /\ ret.success
    /\ LET l == ret.call
           row == certs[l.certificateId]
       IN /\ row.donor_wallet_address.form = "hex"
          /\ row.donor_wallet_address.acct # l.donor
          /\ ~records[row.donor_wallet_address.acct].exists
          /\ writer[l.donor] = l.tx
          /\ records[l.donor].certHash = ToBytes32(l.certHash)
          /\ \E c \in CertId \ {l.certificateId} :
                /\ certs[c].present
                /\ certs[c].tx_hash # Null
                /\ certs[c].tx_hash # Some(l.tx)
                /\ txs[certs[c].tx_hash[1]].status = "ok"
                /\ txs[certs[c].tx_hash[1]].donor = l.donor
                /\ txs[certs[c].tx_hash[1]].certHash # ToBytes32(l.certHash)

(***************************************************************************)
(* C29                                                                     *)
(***************************************************************************)
\* C29: when the decide calls do not overlap, right after each successful
\* decide(c, a, e) the row c holds the hash of its file, eligible = e (true or
\* false, not null) and the transaction of that call, and getRecord(a)
\* returns the same hash and e; also when c held a decision already.
C29_SerialDecide ==
    ret.op = "decide" /\ ret.success =>
        LET l == ret.call
            row == certs[l.certificateId]
        IN /\ row.cert_hash = Some(computeFileHash(files[row.file_path][1]))
           /\ row.eligible = Some(l.eligible)
           /\ row.eligible \in {Some(TRUE), Some(FALSE)}
           /\ row.tx_hash = Some(l.tx)
           /\ getRecord(l.donor).exists
           /\ getRecord(l.donor).certHash = ToBytes32(row.cert_hash[1])
           /\ getRecord(l.donor).eligible = l.eligible

\* a second decision on a certificate has succeeded, with the other
\* eligibility: the first call's transaction, reported with success, is in no
\* row any more
C29_Witness ==
    /\ ret.op = "decide" /\ ret.success
    /\ ret.call.tx = 2
    /\ txs[1].status = "ok" /\ txs[1].reported
    /\ txs[1].eligible # ret.call.eligible
    /\ txs[1].donor = ret.call.donor
    /\ \A d \in CertId : certs[d].present => certs[d].tx_hash # Some(1)
    /\ certs[ret.call.certificateId].tx_hash = Some(2)

(***************************************************************************)
(* C30                                                                     *)
(***************************************************************************)
\* C30: a request whose transaction was submitted and whose wait for the
\* confirmation fails answers with an ordinary error (status 400, not the
\* message of the failed update), having called nothing after tx.wait(): no
\* update of the row and no read of the ledger; the rows, the ledger and the
\* transaction are as before.  The later commit of the transaction changes
\* no row, and the message of the failed update is only sent by a request
\* whose transaction was committed when it answered.
C30_WaitFailure ==
    [][/\ ret.op = "none" /\ ret'.op = "decide" /\ ret'.stage = "wait" =>
            /\ ~ret'.success
            /\ ret'.status = 400
            /\ ret'.error # DbFailed
            /\ ret'.call.calls = WaitCalls
            /\ certs' = certs
            /\ records' = records
            /\ txs' = txs
       /\ ret.op = "none" /\ ret'.op = "storeVerification" => certs' = certs
       /\ ret.op = "none" /\ ret'.op = "decide" /\ ret'.error = DbFailed =>
            txs[ret'.call.tx].status = "ok"
      ]_vars

\* the only transaction ever sent has just been committed when its request
\* had already answered (while it was pending: with the error of the wait);
\* the ledger holds the decision for the hash of a certificate whose row is
\* still pending, and no request is running
C30_Witness ==
    /\ ret.op = "storeVerification" /\ ~ret.reverted
    /\ ret.tx = 1 /\ txs[1].status = "ok" /\ ~txs[1].reported
    /\ txs[2].status = "none"
    /\ \A p \in Proc : pc[p] = "idle"
    /\ records[ret.donor].exists
    /\ records[ret.donor].certHash = ret.certHash
    /\ records[ret.donor].eligible = ret.eligible
    /\ \E c \in CertId :
         /\ certs[c].present
         /\ certs[c].eligible = Null /\ certs[c].tx_hash = Null
         /\ ToBytes32(computeFileHash(files[certs[c].file_path][1])) = ret.certHash
         /\ \A d \in CertId \ {c} : ~certs[d].present
====
